---------------------------- MODULE Spec2Model ----------------------------
(***************************************************************************)
(* Model of the rotary-encoder volume daemon (src/main.py).                *)
(*                                                                         *)
(* Two contexts run in the program: the GPIO callback thread (the          *)
(* producer), which runs RotaryEncoder._callback, _buttonCallback and the  *)
(* closures on_turn / on_press, and the main thread (the consumer), which  *)
(* runs the dispatch loop, consume_queue, handle_delta and the Volume      *)
(* methods.  Callbacks of one RotaryEncoder are delivered serially.        *)
(***************************************************************************)
EXTENDS Integers, Sequences, FiniteSets, TLC

(***************************************************************************)
(* Program constants.                                                      *)
(***************************************************************************)
GPIO_A == 6
GPIO_B == 13
GPIO_BUTTON == 5
MIN == 0
MAX == 100
INCREMENT == 1
\* Python's None, the initial value of RotaryEncoder.lastGpio.
None == 0

(***************************************************************************)
(* Bounds of the model.                                                    *)
(***************************************************************************)
\* Notifications delivered to _callback with any channel and level.
MaxNotes == 6
\* Quarter steps of the knob.
MaxSteps == 12
\* Producer events (turn callbacks and presses) in the pipeline specification.
MaxEvents == 4
\* The end-to-end scenario: start volume, ticks up, ticks down.
StartVolume == 50
TicksUp == 10
TicksDown == 60

VARIABLES
    lastGpio,   \* RotaryEncoder.lastGpio
    levA,       \* RotaryEncoder.levA
    levB,       \* RotaryEncoder.levB
    QUEUE,      \* the module-level Queue, a sequence of deltas, head first
    EVENT,      \* the module-level threading.Event flag
    pc,         \* the main thread's position in the dispatch loop
    delta,      \* consume_queue's local variable delta
    ppc,        \* the callback thread's position inside on_turn / on_press
    volume,     \* Volume.volume
    backend,    \* the volume held by the external volumio service
    muted,      \* the mute state held by the external volumio service
    sent,       \* the volumio invocations made by the most recent Volume call
    call,       \* history: the most recent Volume method call and its argument
    arrived,    \* history: the events the producer delivered, in order
    applied,    \* history: the events applied to the backend, in order
    pos,        \* the knob's position in quarter steps from its start
    steps,      \* history: the number of notifications delivered to _callback
    note,       \* history: the most recent notification and what it emitted
    run,        \* history: the current run of same-channel notifications
    proc        \* the process: SIGINT handler, pins with edge detection, exit status

vars == <<lastGpio, levA, levB, QUEUE, EVENT, pc, delta, ppc, volume, backend,
          muted, sent, call, arrived, applied, pos, steps, note, run, proc>>

decoderVars == <<lastGpio, levA, levB>>
volumeVars == <<volume, backend, muted, sent, call>>
consumerVars == <<pc, delta>>
walkVars == <<pos, steps, note, run>>

Channels == {GPIO_A, GPIO_B}
\* The pins RotaryEncoder.__init__ registers edge detection on.
Pins == {GPIO_A, GPIO_B, GPIO_BUTTON}
Levels == {0, 1}
Deltas == {1, 0 - 1}


(***************************************************************************)
(* History records.                                                        *)
(***************************************************************************)
TurnEvent(d) == [kind |-> "turn", delta |-> d]
PressEvent == [kind |-> "press", delta |-> 0]

\* The deltas of the turn events of a sequence of events, in order.
RECURSIVE TurnDeltas(_)
TurnDeltas(evs) ==
    IF evs = <<>> THEN <<>>
    ELSE IF Head(evs).kind = "turn"
         THEN <<Head(evs).delta>> \o TurnDeltas(Tail(evs))
         ELSE TurnDeltas(Tail(evs))

(***************************************************************************)
(* RotaryEncoder._callback as a pure function of the decoder's fields.     *)
(***************************************************************************)
\* A faulty variant of StoreA: the level is stored after the debounce test,
\* so a debounced notification does not record it.
StoreAUnlessDebounced(st, channel, level) ==
    IF channel = GPIO_A /\ channel # st.lastGpio THEN level ELSE st.levA

\* main.py 111-114: the level is stored under A when the channel is gpioA and
\* under B for every other channel.
StoreA(st, channel, level) == IF channel = GPIO_A THEN level ELSE st.levA

StoreB(st, channel, level) == IF channel = GPIO_A THEN st.levB ELSE level

\* A faulty variant of Debounced: the debounce test is missing.
DebouncedNever(st, channel) == FALSE

\* main.py 117: the debounce test.
Debounced(st, channel) == channel = st.lastGpio

\* A faulty variant of Direction: a rising edge fires whatever the other line's level.
DirectionAnyRise(channel, level, a, b) ==
    IF channel = GPIO_A /\ level = 1
    THEN 1
    ELSE IF channel = GPIO_B /\ level = 1 THEN 0 - 1 ELSE 0

\* A faulty variant of Direction: both branches pass the same delta.
DirectionSameSign(channel, level, a, b) ==
    IF channel = GPIO_A /\ level = 1
    THEN (IF b = 1 THEN 1 ELSE 0)
    ELSE IF channel = GPIO_B /\ level = 1
         THEN (IF a = 1 THEN 1 ELSE 0)
         ELSE 0

\* main.py 124-129: the delta passed to the callback, 0 when it is not called.
Direction(channel, level, a, b) ==
    IF channel = GPIO_A /\ level = 1
    THEN (IF b = 1 THEN 1 ELSE 0)
    ELSE IF channel = GPIO_B /\ level = 1
         THEN (IF a = 1 THEN 0 - 1 ELSE 0)
         ELSE 0

\* The decoder's fields after one notification, and the delta it emits.
Decode(st, channel, level) ==
    LET a == StoreA(st, channel, level)
        b == StoreB(st, channel, level)
    IN  IF Debounced(st, channel)
        THEN [lastGpio |-> st.lastGpio, levA |-> a, levB |-> b, emit |-> 0]
        ELSE [lastGpio |-> channel, levA |-> a, levB |-> b,
              emit |-> Direction(channel, level, a, b)]

\* The fields set by RotaryEncoder.__init__.
Fresh == [lastGpio |-> None, levA |-> 0, levB |-> 0]

\* The deltas emitted when a sequence of <<channel, level>> notifications is
\* delivered serially to a decoder in state st.
RECURSIVE Emits(_, _)
Emits(st, notes) ==
    IF notes = <<>> THEN <<>>
    ELSE LET r == Decode(st, Head(notes)[1], Head(notes)[2])
             rest == Emits([lastGpio |-> r.lastGpio, levA |-> r.levA,
                            levB |-> r.levB], Tail(notes))
         IN  IF r.emit = 0 THEN rest ELSE <<r.emit>> \o rest

(***************************************************************************)
(* The producer: the GPIO callback thread.                                 *)
(***************************************************************************)
\* A faulty variant of on_turn: the delta is put at the head of the queue.
on_turn_lifo(d) ==
    /\ QUEUE' = <<d>> \o QUEUE
    /\ arrived' = Append(arrived, TurnEvent(d))
    /\ ppc' = "turn_set"

\* on_turn, first statement: QUEUE.put(delta).
on_turn(d) ==
    /\ QUEUE' = Append(QUEUE, d)
    /\ arrived' = Append(arrived, TurnEvent(d))
    /\ ppc' = "turn_set"

\* on_turn, second statement: EVENT.set().
on_turn_set ==
    /\ ppc = "turn_set"
    /\ EVENT' = TRUE
    /\ ppc' = "idle"
    /\ UNCHANGED <<proc, decoderVars, QUEUE, consumerVars, volumeVars, arrived,
                   applied, walkVars>>

\* RotaryEncoder._callback(channel), GPIO.input(channel) returning level.
Callback(channel, level) ==
    LET r == Decode([lastGpio |-> lastGpio, levA |-> levA, levB |-> levB],
                    channel, level)
    IN  /\ lastGpio' = r.lastGpio
        /\ levA' = r.levA
        /\ levB' = r.levB
        /\ IF r.emit = 0
           THEN UNCHANGED <<QUEUE, arrived, ppc>>
           ELSE on_turn(r.emit)
        /\ UNCHANGED <<proc, EVENT, consumerVars, volumeVars, applied>>

\* What the history records of one notification.
Observe(channel, level) ==
    LET emitted == IF Len(QUEUE') > Len(QUEUE) THEN QUEUE'[Len(QUEUE')] ELSE 0
        fired == IF emitted = 0 THEN 0 ELSE 1
    IN  /\ steps' = steps + 1
        /\ note' = [ch |-> channel, level |-> level, delta |-> emitted]
        /\ run' = IF channel = note.ch
                  THEN [len |-> run.len + 1, emits |-> run.emits + fired]
                  ELSE [len |-> 1, emits |-> fired]

\* One notification with any channel and any level read from the pin.
Notify(channel, level) ==
    /\ ppc = "idle"
    /\ steps < MaxNotes
    /\ Callback(channel, level)
    /\ Observe(channel, level)
    /\ UNCHANGED pos

(***************************************************************************)
(* The knob: a quadrature encoder walking the Gray cycle 00, 10, 11, 01.   *)
(***************************************************************************)
PinA(p) == IF p % 4 \in {1, 2} THEN 1 ELSE 0

PinB(p) == IF p % 4 \in {2, 3} THEN 1 ELSE 0

\* The channel whose line changes between positions p and q, one step apart.
Changed(p, q) == IF PinA(p) # PinA(q) THEN GPIO_A ELSE GPIO_B

\* The level GPIO.input reads on a channel at position p.
Input(channel, p) == IF channel = GPIO_A THEN PinA(p) ELSE PinB(p)

\* The knob moves one quarter step (d = 1 forward, d = -1 backward); the edge
\* is detected and _callback runs with the changed channel.
Turn(d) ==
    /\ ppc = "idle"
    /\ steps < MaxSteps
    /\ pos' = pos + d
    /\ Callback(Changed(pos, pos + d), Input(Changed(pos, pos + d), pos + d))
    /\ Observe(Changed(pos, pos + d), Input(Changed(pos, pos + d), pos + d))

\* The notifications of n quarter steps in direction d from position 0.
WalkNotes(n, d) ==
    [i \in 1..n |-> <<Changed((i - 1) * d, i * d),
                      Input(Changed((i - 1) * d, i * d), i * d)>>]

(***************************************************************************)
(* The Volume class.  ctx names the thread that runs the method: "main" or *)
(* "callback".                                                             *)
(***************************************************************************)
Minimum(a, b) == IF a < b THEN a ELSE b

Maximum(a, b) == IF a > b THEN a ELSE b

\* A faulty variant of clamp: the upper limit is not applied.
clampNoUpper(v) == Maximum(v, MIN)

\* Volume.clamp
clamp(v) == Maximum(Minimum(MAX, v), MIN)

\* One invocation of the volumio command.
Command(ctx, cmd, arg) == [ctx |-> ctx, cmd |-> cmd, arg |-> arg]

\* Volume._sync, the test `if not v`: true of None and of the integer 0.
SyncQueries(v) == v = None \/ v = 0

\* Volume.set_volume(v): clamp, _sync (which asks the backend for its volume
\* when the test above holds), then the volume command with self.volume.
set_volume(ctx, v) ==
    LET c == clamp(v)
        synced == IF SyncQueries(c) THEN backend ELSE c
        query == IF SyncQueries(c) THEN <<Command(ctx, "query", 0)>> ELSE <<>>
    IN  /\ volume' = synced
        /\ sent' = query \o <<Command(ctx, "volume", synced)>>
        /\ backend' = synced
        /\ call' = [op |-> "set_volume", arg |-> v]
        /\ UNCHANGED muted

\* Volume.set_volume(v) when the volume command exits non-zero:
\* subprocess.call returns the exit code, which volumio() ignores; the
\* backend keeps its volume.
set_volume_command_fails(ctx, v) ==
    LET c == clamp(v)
        synced == IF SyncQueries(c) THEN backend ELSE c
        query == IF SyncQueries(c) THEN <<Command(ctx, "query", 0)>> ELSE <<>>
    IN  /\ volume' = synced
        /\ sent' = query \o <<Command(ctx, "volume", synced)>>
        /\ call' = [op |-> "set_volume", arg |-> v]
        /\ UNCHANGED <<backend, muted>>

\* Volume.set_volume(v) when _sync's query fails: subprocess.check_output
\* raises CalledProcessError after self.volume = clamp(v) was stored, and
\* nothing in set_volume, handle_delta or consume_queue catches it.
set_volume_query_fails(ctx, v) ==
    /\ SyncQueries(clamp(v))
    /\ volume' = clamp(v)
    /\ sent' = <<Command(ctx, "query", 0)>>
    /\ call' = [op |-> "set_volume", arg |-> v]
    /\ UNCHANGED <<backend, muted>>

\* Volume.up
up(ctx) == set_volume(ctx, volume + INCREMENT)

\* Volume.down
down(ctx) == set_volume(ctx, volume - INCREMENT)

\* A faulty variant of toggle: muting is done locally by zeroing the volume.
toggle_zeroes(ctx) ==
    /\ sent' = <<Command(ctx, "toggle", 0)>>
    /\ muted' = ~muted
    /\ call' = [op |-> "toggle", arg |-> 0]
    /\ volume' = MIN
    /\ UNCHANGED backend

\* Volume.toggle
toggle(ctx) ==
    /\ sent' = <<Command(ctx, "toggle", 0)>>
    /\ muted' = ~muted
    /\ call' = [op |-> "toggle", arg |-> 0]
    /\ UNCHANGED <<volume, backend>>

\* handle_delta
handle_delta(ctx, d) == IF d = 1 THEN up(ctx) ELSE down(ctx)

(***************************************************************************)
(* The producer's closures in the running daemon.                          *)
(***************************************************************************)
\* The decoder calls self.callback(d): on_turn(d) runs in the callback thread.
TurnCallback(d) ==
    /\ ppc = "idle"
    /\ Len(arrived) < MaxEvents
    /\ on_turn(d)
    /\ UNCHANGED <<proc, decoderVars, EVENT, consumerVars, volumeVars, applied,
                   walkVars>>

\* _buttonCallback -> on_press, first statement: v.toggle().
on_press ==
    /\ toggle("callback")
    /\ arrived' = Append(arrived, PressEvent)
    /\ applied' = Append(applied, PressEvent)
    /\ ppc' = "press_set"

ButtonCallback ==
    /\ ppc = "idle"
    /\ Len(arrived) < MaxEvents
    /\ on_press
    /\ UNCHANGED <<proc, decoderVars, QUEUE, EVENT, consumerVars, walkVars>>

\* on_press, second statement: EVENT.set().
on_press_set ==
    /\ ppc = "press_set"
    /\ EVENT' = TRUE
    /\ ppc' = "idle"
    /\ UNCHANGED <<proc, decoderVars, QUEUE, consumerVars, volumeVars, arrived,
                   applied, walkVars>>

(***************************************************************************)
(* The consumer: the main thread's dispatch loop.                          *)
(*     while True: EVENT.wait(1200); consume_queue(); EVENT.clear()        *)
(***************************************************************************)
\* EVENT.wait returns because the flag is set; wait does not clear it.
Wake ==
    /\ pc = "wait"
    /\ EVENT
    /\ pc' = "check"
    /\ UNCHANGED <<proc, decoderVars, QUEUE, EVENT, delta, ppc, volumeVars, arrived,
                   applied, walkVars>>

\* A faulty variant of Timeout: EVENT.wait() without a timeout never returns on its own.
TimeoutNever ==
    /\ pc = "wait"
    /\ FALSE
    /\ UNCHANGED vars

\* EVENT.wait(1200) returns because the timeout elapsed with the flag clear.
Timeout ==
    /\ pc = "wait"
    /\ ~EVENT
    /\ pc' = "check"
    /\ UNCHANGED <<proc, decoderVars, QUEUE, EVENT, delta, ppc, volumeVars, arrived,
                   applied, walkVars>>

\* The element QUEUE.get() removes and returns.
Got(q) == Head(q)

\* What QUEUE.get() leaves on the queue.
Rest(q) == Tail(q)

\* consume_queue: `not QUEUE.empty()` holds, delta = QUEUE.get().
Get ==
    /\ pc = "check"
    /\ QUEUE # <<>>
    /\ delta' = Got(QUEUE)
    /\ QUEUE' = Rest(QUEUE)
    /\ pc' = "handle"
    /\ UNCHANGED <<proc, decoderVars, EVENT, ppc, volumeVars, arrived, applied,
                   walkVars>>

\* consume_queue: QUEUE.empty() holds, the loop ends.
Drained ==
    /\ pc = "check"
    /\ QUEUE = <<>>
    /\ pc' = "clear"
    /\ UNCHANGED <<proc, decoderVars, QUEUE, EVENT, delta, ppc, volumeVars, arrived,
                   applied, walkVars>>

\* consume_queue: handle_delta(delta).
Handle ==
    /\ pc = "handle"
    /\ handle_delta("main", delta)
    /\ applied' = Append(applied, TurnEvent(delta))
    /\ pc' = "check"
    /\ UNCHANGED <<proc, decoderVars, QUEUE, EVENT, delta, ppc, arrived, walkVars>>

\* EVENT.clear()
Clear ==
    /\ pc = "clear"
    /\ EVENT' = FALSE
    /\ pc' = "wait"
    /\ UNCHANGED <<proc, decoderVars, QUEUE, delta, ppc, volumeVars, arrived,
                   applied, walkVars>>

Consumer == Wake \/ Timeout \/ Get \/ Drained \/ Handle \/ Clear

\* The value handle_delta asks set_volume for.
Target(d) == IF d = 1 THEN volume + INCREMENT ELSE volume - INCREMENT

\* consume_queue: handle_delta(delta), the volume command exiting non-zero.
HandleCommandFails ==
    /\ pc = "handle"
    /\ set_volume_command_fails("main", Target(delta))
    /\ applied' = Append(applied, TurnEvent(delta))
    /\ pc' = "check"
    /\ UNCHANGED <<proc, decoderVars, QUEUE, EVENT, delta, ppc, arrived,
                   walkVars>>

\* consume_queue: handle_delta(delta), the volume query failing: the
\* exception leaves consume_queue and the while loop, the main thread ends
\* with a traceback and the process exits with a non-zero status.
HandleQueryFails ==
    /\ pc = "handle"
    /\ set_volume_query_fails("main", Target(delta))
    /\ pc' = "crashed"
    /\ proc' = [proc EXCEPT !.status = "nonzero"]
    /\ UNCHANGED <<decoderVars, QUEUE, EVENT, delta, ppc, arrived, applied,
                   walkVars>>

(***************************************************************************)
(* Process start and SIGINT.                                               *)
(***************************************************************************)
Alive == proc.status = "running"

\* v = Volume(): __init__ sets last_volume and calls _sync(), which queries.
VolumeInit ==
    /\ Alive
    /\ pc = "start"
    /\ volume' = backend
    /\ sent' = <<Command("main", "query", 0)>>
    /\ call' = [op |-> "__init__", arg |-> None]
    /\ pc' = "encoder"
    /\ UNCHANGED <<proc, decoderVars, QUEUE, EVENT, delta, ppc, backend, muted,
                   arrived, applied, walkVars>>

\* encoder = RotaryEncoder(...): edge detection is added on the three pins.
EncoderInit ==
    /\ Alive
    /\ pc = "encoder"
    /\ proc' = [proc EXCEPT !.detect = Pins]
    /\ pc' = "signal"
    /\ UNCHANGED <<decoderVars, QUEUE, EVENT, delta, ppc, volumeVars, arrived,
                   applied, walkVars>>

\* signal.signal(signal.SIGINT, on_exit)
InstallHandler ==
    /\ Alive
    /\ pc = "signal"
    /\ proc' = [proc EXCEPT !.handler = "on_exit"]
    /\ pc' = "wait"
    /\ UNCHANGED <<decoderVars, QUEUE, EVENT, delta, ppc, volumeVars, arrived,
                   applied, walkVars>>

\* SIGINT is delivered to the main thread.  With on_exit installed:
\* encoder.destroy() (remove_event_detect, GPIO.cleanup) and sys.exit(0).
\* Before that Python's default handler raises KeyboardInterrupt, which
\* nothing catches: no destroy(), a non-zero exit status.
Sigint ==
    /\ Alive
    /\ proc' = IF proc.handler = "on_exit"
               THEN [proc EXCEPT !.detect = {}, !.status = "exit 0"]
               ELSE [proc EXCEPT !.status = "nonzero"]
    /\ pc' = "exited"
    /\ UNCHANGED <<decoderVars, QUEUE, EVENT, delta, ppc, volumeVars, arrived,
                   applied, walkVars>>

(***************************************************************************)
(* Initial state: after Volume(), RotaryEncoder(...) and signal setup, the *)
(* main thread is about to call EVENT.wait.                                *)
(***************************************************************************)
InitWith(startVolumes) ==
    /\ lastGpio = None
    /\ levA = 0
    /\ levB = 0
    /\ QUEUE = <<>>
    /\ EVENT = FALSE
    /\ pc = "wait"
    /\ delta = 0
    /\ ppc = "idle"
    /\ backend \in startVolumes
    /\ volume = backend
    /\ muted = FALSE
    /\ sent = <<[ctx |-> "main", cmd |-> "query", arg |-> 0]>>
    /\ call = [op |-> "__init__", arg |-> None]
    /\ arrived = <<>>
    /\ applied = <<>>
    /\ pos = 0
    /\ steps = 0
    /\ note = [ch |-> None, level |-> 0, delta |-> 0]
    /\ run = [len |-> 0, emits |-> 0]
    /\ proc = [handler |-> "on_exit", detect |-> Pins, status |-> "running"]

(***************************************************************************)
(* The decoder fed arbitrary notifications, and fed by the knob.           *)
(***************************************************************************)
InitDecoder == InitWith({StartVolume})

NextDecoder ==
    \/ \E channel \in Channels, level \in Levels : Notify(channel, level)
    \/ on_turn_set

SpecDecoder == InitDecoder /\ [][NextDecoder]_vars

NextWalk ==
    \/ \E d \in Deltas : Turn(d)
    \/ on_turn_set

SpecWalk == InitDecoder /\ [][NextWalk]_vars

(***************************************************************************)
(* The running daemon: producer callbacks interleaved with the main loop.  *)
(***************************************************************************)
StartVolumes == {MIN, MIN + 1, MAX}

Init == InitWith(StartVolumes)

Producer ==
    \/ \E d \in Deltas : TurnCallback(d)
    \/ on_turn_set
    \/ ButtonCallback
    \/ on_press_set

Next == Producer \/ Consumer

Spec == Init /\ [][Next]_vars

\* The main thread keeps running: every step of the loop that is enabled is
\* eventually taken, the expiry of the wait's timeout included.
SpecLive == Spec /\ WF_vars(Consumer) /\ WF_vars(on_turn_set \/ on_press_set)

(***************************************************************************)
(* The Volume object driven directly by up() and down() calls, while other *)
(* clients of the volume service may change the backend's volume.          *)
(***************************************************************************)
InitVolume == InitWith(MIN..MAX)

VolumeUp ==
    /\ up("main")
    /\ UNCHANGED <<proc, decoderVars, QUEUE, EVENT, consumerVars, ppc, arrived,
                   applied, walkVars>>

VolumeDown ==
    /\ down("main")
    /\ UNCHANGED <<proc, decoderVars, QUEUE, EVENT, consumerVars, ppc, arrived,
                   applied, walkVars>>

\* Another client sets the backend's volume to r.
BackendChange(r) ==
    /\ backend' = r
    /\ UNCHANGED <<proc, decoderVars, QUEUE, EVENT, consumerVars, ppc, volume, muted,
                   sent, call, arrived, applied, walkVars>>

NextVolume ==
    \/ VolumeUp
    \/ VolumeDown
    \/ \E r \in MIN..MAX : BackendChange(r)

SpecVolume == InitVolume /\ [][NextVolume]_vars

(***************************************************************************)
(* The end-to-end scenario: the backend reports StartVolume at startup,    *)
(* the producer delivers TicksUp turns +1, TicksDown turns -1, one press.  *)
(***************************************************************************)
InitE2E == InitWith({StartVolume})

ScriptedTurn ==
    /\ ppc = "idle"
    /\ Len(arrived) < TicksUp + TicksDown
    /\ on_turn(IF Len(arrived) < TicksUp THEN 1 ELSE 0 - 1)
    /\ UNCHANGED <<proc, decoderVars, EVENT, consumerVars, volumeVars, applied,
                   walkVars>>

ScriptedPress ==
    /\ ppc = "idle"
    /\ Len(arrived) = TicksUp + TicksDown
    /\ on_press
    /\ UNCHANGED <<proc, decoderVars, QUEUE, EVENT, consumerVars, walkVars>>

NextE2E ==
    \/ ScriptedTurn
    \/ on_turn_set
    \/ ScriptedPress
    \/ on_press_set
    \/ Consumer

SpecE2E == InitE2E /\ [][NextE2E]_vars

(***************************************************************************)
(* The running daemon with a backend whose commands may fail.              *)
(***************************************************************************)
NextFail ==
    \/ Alive /\ Producer
    \/ Consumer
    \/ HandleCommandFails
    \/ HandleQueryFails

SpecFail == Init /\ [][NextFail]_vars

(***************************************************************************)
(* The process from its start, with SIGINT arriving at any time.           *)
(***************************************************************************)
InitSignal ==
    /\ lastGpio = None
    /\ levA = 0
    /\ levB = 0
    /\ QUEUE = <<>>
    /\ EVENT = FALSE
    /\ pc = "start"
    /\ delta = 0
    /\ ppc = "idle"
    /\ backend \in StartVolumes
    /\ volume = MIN
    /\ muted = FALSE
    /\ sent = <<>>
    /\ call = [op |-> "none", arg |-> None]
    /\ arrived = <<>>
    /\ applied = <<>>
    /\ pos = 0
    /\ steps = 0
    /\ note = [ch |-> None, level |-> 0, delta |-> 0]
    /\ run = [len |-> 0, emits |-> 0]
    /\ proc = [handler |-> "default", detect |-> {}, status |-> "running"]

NextSignal ==
    \/ VolumeInit
    \/ EncoderInit
    \/ InstallHandler
    \/ Sigint
    \/ Alive /\ proc.detect # {} /\ Producer
    \/ Consumer

SpecSignal == InitSignal /\ [][NextSignal]_vars

(***************************************************************************)
(* Properties of the decoder.                                              *)
(***************************************************************************)
\* Both lines of the knob are high at its current position.
BothHigh == PinA(pos) = 1 /\ PinB(pos) = 1

\* Every element of a sequence equals its first.
AllSame(q) == \A i \in 1..Len(q) : q[i] = q[1]

\* The elementwise negation of a sequence of deltas.
Negated(q) == [i \in 1..Len(q) |-> 0 - q[i]]

\* C1: a fresh decoder fed the clockwise Gray sequence 00->10->11->01->00
\* (every step so far was a forward step) has called the turn callback once
\* per entry into 11, that is once per detent, always with the same delta,
\* and a notification calls it exactly when it is the transition into 11.
C1_ClockwiseOnePerDetent ==
    pos = steps =>
        /\ Len(QUEUE) = (steps + 2) \div 4
        /\ AllSame(QUEUE)
        /\ (note.delta # 0 <=> (steps > 0 /\ BothHigh))

\* Two full clockwise detents delivered, two callbacks made.
C1_Witness == pos = 8 /\ steps = 8 /\ Len(QUEUE) = 2

\* C2: a fresh decoder fed the reversed Gray sequence 00->01->11->10->00
\* (every step so far was a backward step) has called the turn callback once
\* per detent, on the transition into 11 only, and its deltas are the
\* negation of those the forward sequence of the same length produces.
C2_ReverseNegates ==
    pos = 0 - steps =>
        /\ Len(QUEUE) = (steps + 2) \div 4
        /\ QUEUE = Negated(Emits(Fresh, WalkNotes(steps, 1)))
        /\ (note.delta # 0 <=> (steps > 0 /\ BothHigh))

\* Two full counter-clockwise detents delivered, two callbacks made.
C2_Witness == pos = 0 - 8 /\ steps = 8 /\ Len(QUEUE) = 2

\* C3: in a run of consecutive notifications on one channel the turn callback
\* is called at most once, and a notification that is not the first of its
\* run calls nothing, whatever level it reports.
C3_DebounceIdempotent ==
    /\ run.emits <= 1
    /\ (run.len >= 2 => note.delta = 0)

\* A run of three notifications on A whose first one fired and whose latest
\* reports level 1 with B high, the condition that fires when not debounced.
C3_Witness ==
    /\ run.len = 3
    /\ run.emits = 1
    /\ note.ch = GPIO_A
    /\ note.level = 1
    /\ levB = 1

(***************************************************************************)
(* Properties of the queue, the wake signal and the dispatch loop.         *)
(***************************************************************************)
\* The delta consume_queue has taken off the queue and not yet handled.
InHand == IF pc = "handle" THEN <<delta>> ELSE <<>>

IsPrefix(a, b) == Len(a) <= Len(b) /\ \A i \in 1..Len(a) : a[i] = b[i]

\* C4: the deltas passed to handle_delta, then the one in consume_queue's
\* hand, then the queue's content are exactly the deltas put on QUEUE, in
\* the order they were put: none handled twice, none skipped, none overtaken.
C4_FifoExactlyOnce ==
    TurnDeltas(applied) \o InHand \o QUEUE = TurnDeltas(arrived)

\* Two different deltas handled in order while a third is in hand and a
\* fourth was pushed during the drain.
C4_Witness ==
    /\ TurnDeltas(applied) = <<1, 0 - 1>>
    /\ pc = "handle"
    /\ QUEUE # <<>>

\* C5 (as claimed): the consumer is never in EVENT.wait with the flag clear
\* while QUEUE holds a delta whose producer has finished on_turn.
C5_NoStall ==
    (pc = "wait" /\ ~EVENT /\ ppc = "idle") => QUEUE = <<>>

\* C6: under a fair main thread whose wait eventually times out, the k-th
\* delta put on QUEUE is eventually passed to handle_delta, for every k.
C6_EveryDeltaHandled ==
    \A k \in 1..MaxEvents :
        (Len(TurnDeltas(arrived)) >= k) ~> (Len(TurnDeltas(applied)) >= k)

\* A delta is being handled that was put between consume_queue's last
\* emptiness test and EVENT.clear: the flag is clear, no producer is mid-call.
C6_Witness ==
    /\ pc = "handle"
    /\ ~EVENT
    /\ ppc = "idle"

\* C7 (as claimed): when the producer delivers turn +1, press, turn -1, the
\* events are applied to the backend in the order they arrived.
C7_ArrivalOrder ==
    IsPrefix(arrived, <<TurnEvent(1), PressEvent, TurnEvent(0 - 1)>>)
        => IsPrefix(applied, arrived)

\* C8 (as claimed): every volumio invocation is made by the main thread.
C8_OnlyMainIssuesCommands ==
    \A i \in 1..Len(sent) : sent[i].ctx = "main"

(***************************************************************************)
(* Properties of the Volume object.                                        *)
(***************************************************************************)
\* C9: with the backend reporting a volume in MIN..MAX whenever queried,
\* Volume.volume is in MIN..MAX after startup and after every up()/down().
C9_VolumeInRange == volume \in MIN..MAX

\* up() was called at MAX: set_volume was asked for MAX + INCREMENT.
C9_Witness ==
    /\ call = [op |-> "set_volume", arg |-> MAX + INCREMENT]
    /\ volume = MAX

\* The number of presses in a sequence of events.
Presses(evs) == Len(evs) - Len(TurnDeltas(evs))

\* C10 (as claimed): from volume 50, once the 10 turns +1 are handled the
\* volume is 60; once the 60 turns -1 are handled too it is 0; the press then
\* issues exactly one toggle.
C10_EndToEnd ==
    /\ Len(TurnDeltas(applied)) = TicksUp => volume = StartVolume + TicksUp
    /\ Len(TurnDeltas(applied)) = TicksUp + TicksDown => volume = 0
    /\ Presses(arrived) = 1 => Presses(applied) = 1

\* C11 (as claimed): after set_volume(c + d) the local volume is
\* clamp(c + d) and the last command sent is the volume command with that
\* same number.
C11_TurnSetsClamped ==
    call.op = "set_volume" =>
        /\ volume = clamp(call.arg)
        /\ sent[Len(sent)] = Command("main", "volume", clamp(call.arg))

\* C12 (as claimed): every Volume call made to apply an event invokes the
\* volumio command exactly once.
C12_OneCommandPerEvent ==
    call.op \in {"set_volume", "toggle"} => Len(sent) = 1

\* C13: a step that handles a press sends exactly the toggle command and
\* leaves Volume.volume, the backend's volume and QUEUE unchanged.
C13_PressFrame ==
    [][Presses(arrived') = Presses(arrived) + 1 =>
          /\ sent' = <<Command("callback", "toggle", 0)>>
          /\ volume' = volume
          /\ backend' = backend
          /\ QUEUE' = QUEUE]_vars

\* A press was handled while deltas were waiting on QUEUE and the volume was
\* above MIN.
C13_Witness ==
    /\ call.op = "toggle"
    /\ Presses(applied) = 1
    /\ Len(QUEUE) = 2
    /\ volume > MIN

(***************************************************************************)
(* The decoder notified on any registered pin, the button's included.      *)
(***************************************************************************)
NextAnyPin ==
    \/ \E channel \in Pins, level \in Levels : Notify(channel, level)
    \/ on_turn_set

SpecAnyPin == InitDecoder /\ [][NextAnyPin]_vars

(***************************************************************************)
(* Properties of failure handling and shutdown.                            *)
(***************************************************************************)
\* C14 (as claimed): a failing backend command during the handling of a
\* delta is not fatal: the process keeps running and the dispatch loop goes
\* on with the remaining deltas.
C14_FailureNotFatal == proc.status = "running"

\* C16 (as claimed): whenever SIGINT has ended the process, edge detection
\* has been released on every pin and the exit status is 0.
C16_GracefulExit ==
    ~Alive => (proc.status = "exit 0" /\ proc.detect = {})

\* C17 (as claimed): a notification whose channel is neither gpioA nor
\* gpioB leaves levA, levB and lastGpio unchanged and emits no turn.
C17_ForeignChannelRejected ==
    [][(steps' = steps + 1 /\ note'.ch \notin Channels) =>
          /\ lastGpio' = lastGpio
          /\ levA' = levA
          /\ levB' = levB
          /\ QUEUE' = QUEUE]_vars

\* The notification just delivered was not the first of its run.
LaterInRun == run.len >= 2

\* C18: whenever a notification on A or B calls the turn callback, it
\* reported level 1 and both stored levels are 1; the delta is +1 exactly
\* when the channel is A and -1 exactly when it is B.
C18_FiresOnlyBothHigh ==
    note.delta # 0 =>
        /\ note.level = 1
        /\ levA = 1
        /\ levB = 1
        /\ (note.delta = 1 <=> note.ch = GPIO_A)
        /\ (note.delta = 0 - 1 <=> note.ch = GPIO_B)
        /\ ~LaterInRun

\* B rising with A high has just called the callback with -1.
C18_Witness ==
    /\ note.delta = 0 - 1
    /\ note.ch = GPIO_B
    /\ levA = 1
    /\ levB = 1
    /\ steps >= 3

\* The level stored for a channel, given the two stored levels.
Stored(a, b, channel) == IF channel = GPIO_A THEN a ELSE b

\* The channel of Channels other than the given one.
Other(channel) == IF channel = GPIO_A THEN GPIO_B ELSE GPIO_A

\* C19: every notification stores its level under its own channel and leaves
\* the other channel's level unchanged; one on lastGpio (debounced) leaves
\* lastGpio unchanged and pushes nothing; any other one sets lastGpio to its
\* channel; so lastGpio is the channel of the latest non-debounced one.
C19_NotificationFrame ==
    [][steps' = steps + 1 =>
          /\ Stored(levA', levB', note'.ch) = note'.level
          /\ Stored(levA', levB', Other(note'.ch))
                = Stored(levA, levB, Other(note'.ch))
          /\ (note'.ch = lastGpio => (lastGpio' = lastGpio /\ QUEUE' = QUEUE))
          /\ (note'.ch # lastGpio => lastGpio' = note'.ch)
          /\ lastGpio' = note'.ch]_vars

\* A debounced notification on A has stored level 0 over the 1 that fired.
C19_Witness ==
    /\ run.len = 2
    /\ note.ch = GPIO_A
    /\ note.level = 0
    /\ levA = 0
    /\ levB = 1
    /\ lastGpio = GPIO_A
    /\ Len(QUEUE) = 1

\* The sum of a sequence of deltas.
RECURSIVE Sum(_)
Sum(q) == IF q = <<>> THEN 0 ELSE Head(q) + Sum(Tail(q))

\* The delta a fresh decoder emits for one full forward detent.
ForwardDelta == Emits(Fresh, WalkNotes(4, 1))[1]

\* C20 (as claimed): whenever a Gray walk that started at 00 on a fresh
\* decoder is back at 00, the sum of the emitted deltas is the signed net
\* number of complete detent cycles traversed.
C20_NetDetents ==
    pos % 4 = 0 => Sum(QUEUE) = ForwardDelta * (pos \div 4)

=============================================================================
